---- MODULE Spec2Model ----
(***************************************************************************)
(* Office-management application: attendance time accounting               *)
(* (createAttendanceMutation), the sequential login-id allocator           *)
(* (generate_user_id), the create / edit / delete user flows that use it   *)
(* (UserForm.handleSubmit, handleDeleteUser) and the leave requests page   *)
(* (createLeaveRequestMutation, updateLeaveRequestMutation).               *)
(*                                                                         *)
(* Representation                                                          *)
(*   text        a sequence of one-character strings, "" is << >>          *)
(*   SQL NULL    the one-element sequence NULL (no text equals it)         *)
(*   "HH:MM"     the pair <<h, m>>; an empty / undefined field is << >>    *)
(*   timestamp   [day, ms]: the date part and the time-of-day part of the  *)
(*               ISO string produced by toISOString()                      *)
(*   hours       exact rationals with denominator MsPerHour, kept as the   *)
(*               numerator (milliseconds)                                  *)
(*   Date        [day, min]: the local calendar day (days since the epoch) *)
(*               and the local time of day in minutes                      *)
(***************************************************************************)
EXTENDS Integers, Sequences, FiniteSets, TLC

VARIABLES
    tz,           \* time zone of the browser that runs the attendance page
    attForm,      \* attendanceForm values (react-hook-form state)
    attMutation,  \* createAttendanceMutation: status and variables
    totalHours,   \* totalHours computed by the last mutationFn run
    attendance,   \* table public.attendance
    users,        \* table public.users
    rpc,          \* last direct call of generate_user_id(role_name)
    flow,         \* one UserForm dialog per browser session
    nextId,       \* number of user rows inserted so far (row ids)
    allocated,    \* identifiers generate_user_id has returned to a create flow
    leaves,       \* table public.leave_requests
    leaveSubmit,  \* last submit of the leave request form: outcome and values
    lists,        \* per approver session: the fetched leaveRequests
    clock,        \* the time new Date() returns, in ticks
    authUser,     \* AuthProvider state user
    authLoading,  \* AuthProvider state loading
    localStorage, \* the authUser entry of the browser's localStorage
    rendered,     \* what ProtectedRoute returned at the last render
    signInCall,   \* the signIn call in flight, or the outcome of the last one
    meetings,     \* table public.meetings
    meetingParticipants, \* table public.meeting_participants
    people,       \* ids of the rows of public.users that meetings refer to
    meetingLists, \* per session of the meetings page: the fetched meetings
    meetingEdit   \* the MeetingForm dialog in edit mode

vars == <<tz, attForm, attMutation, totalHours, attendance,
          users, rpc, flow, nextId, allocated,
          leaves, leaveSubmit, lists, clock,
          authUser, authLoading, localStorage, rendered, signInCall,
          meetings, meetingParticipants, people, meetingLists, meetingEdit>>

attVars == <<tz, attForm, attMutation, totalHours, attendance>>
userVars == <<users, rpc, flow, nextId, allocated>>
leaveVars == <<leaves, leaveSubmit, lists, clock>>
authVars == <<authUser, authLoading, localStorage, rendered, signInCall>>
meetVars == <<meetings, meetingParticipants, people, meetingLists, meetingEdit>>

-----------------------------------------------------------------------------
(* Bounds *)

NumTimes == 5
MaxInserts == 2

-----------------------------------------------------------------------------
(* Time accounting: createAttendanceMutation *)

MsPerMinute == 60000
MsPerHour == 3600000
MsPerDay == 86400000
MinPerDay == 1440

NoTime == << >>

TimeValues ==
    << <<9, 0>>, <<17, 0>>, <<12, 0>>, <<12, 30>>, <<17, 1>>, <<23, 59>>, <<2, 30>>,
       <<10, 0>> >>

Times == { TimeValues[i] : i \in 1..NumTimes }

TimeFields == Times \cup {NoTime}

\* A time zone: minutes east of UTC, and on the form's date an optional DST
\* transition: local times from "at" on use offset off + shift.
TimeZones ==
    { [off |-> 0,    at |-> MinPerDay, shift |-> 0],
      [off |-> 180,  at |-> MinPerDay, shift |-> 0],
      [off |-> -300, at |-> 180,       shift |-> 60] }

AttUsers == {"u1"}
AttDates == {19732}
AttStatuses == {"present", "late"}

\* JavaScript truthiness of an optional string field
Truthy(s) == s # << >>

\* new Date(`${format(date, "yyyy-MM-dd")}T${hm}:00`).toISOString()
\* The string is local time; the ISO string is UTC, so the date part can
\* move to the previous or next day.
ToISOString(zone, date, hm) ==
    LET local == hm[1] * 60 + hm[2]
        offset == IF local >= zone.at THEN zone.off + zone.shift ELSE zone.off
        utc == local - offset
    IN  IF utc < 0 THEN [day |-> date - 1, ms |-> (utc + MinPerDay) * MsPerMinute]
        ELSE IF utc >= MinPerDay
             THEN [day |-> date + 1, ms |-> (utc - MinPerDay) * MsPerMinute]
             ELSE [day |-> date, ms |-> utc * MsPerMinute]

NullTs == [day |-> 0, ms |-> -1]

\* data.field ? new Date(...).toISOString() : null
Instant(zone, date, hm) ==
    IF Truthy(hm) THEN ToISOString(zone, date, hm) ELSE NullTs

\* new Date(a).getTime() - new Date(b).getTime()
GetTimeDiff(a, b) == (a.day - b.day) * MsPerDay + (a.ms - b.ms)

MathMax(a, b) == IF a >= b THEN a ELSE b

\* lines 936-947; the result is the numerator over MsPerHour
ComputeTotalHoursNoClamp(clockIn, clockOut, breakStart, breakEnd) ==
    IF clockIn # NullTs /\ clockOut # NullTs
    THEN GetTimeDiff(clockOut, clockIn)
           - (IF breakStart # NullTs /\ breakEnd # NullTs
              THEN GetTimeDiff(breakEnd, breakStart) ELSE 0)
    ELSE 0

ComputeTotalHoursAddBreak(clockIn, clockOut, breakStart, breakEnd) ==
    IF clockIn # NullTs /\ clockOut # NullTs
    THEN MathMax(0, GetTimeDiff(clockOut, clockIn)
           + (IF breakStart # NullTs /\ breakEnd # NullTs
              THEN GetTimeDiff(breakEnd, breakStart) ELSE 0))
    ELSE 0

ComputeTotalHoursEitherClock(clockIn, clockOut, breakStart, breakEnd) ==
    IF clockIn # NullTs \/ clockOut # NullTs
    THEN MathMax(0, (IF clockOut # NullTs THEN clockOut.ms ELSE MsPerDay)
                    - (IF clockIn # NullTs THEN clockIn.ms ELSE 0))
    ELSE 0

ComputeTotalHoursPartialBreak(clockIn, clockOut, breakStart, breakEnd) ==
    IF clockIn # NullTs /\ clockOut # NullTs
    THEN MathMax(0, GetTimeDiff(clockOut, clockIn)
           - (IF breakStart # NullTs /\ breakEnd # NullTs
              THEN GetTimeDiff(breakEnd, breakStart)
              ELSE IF breakStart # NullTs
                   THEN GetTimeDiff(clockOut, breakStart)
                   ELSE 0))
    ELSE 0

ComputeTotalHours(clockIn, clockOut, breakStart, breakEnd) ==
    IF clockIn # NullTs /\ clockOut # NullTs
    THEN MathMax(0, GetTimeDiff(clockOut, clockIn)
           - (IF breakStart # NullTs /\ breakEnd # NullTs
              THEN GetTimeDiff(breakEnd, breakStart) ELSE 0))
    ELSE 0

\* The stored value cut to hundredths of an hour
ToDecimal42Truncate(ms) == ms \div 36000

\* total_hours DECIMAL(4,2): the stored value is the number of hundredths of
\* an hour, rounded half away from zero.
ToDecimal42(ms) ==
    IF ms >= 0 THEN (2 * ms + 36000) \div 72000
    ELSE -((2 * (-ms) + 36000) \div 72000)

AttFormValues ==
    [user_id : AttUsers, date : AttDates,
     clock_in : TimeFields, clock_out : TimeFields,
     break_start : TimeFields, break_end : TimeFields,
     status : AttStatuses]

\* attendanceForm defaultValues: only date and status are set
AttFormDefault ==
    [user_id |-> "", date |-> 19732,
     clock_in |-> NoTime, clock_out |-> NoTime,
     break_start |-> NoTime, break_end |-> NoTime,
     status |-> "present"]

\* supabase.from("attendance").upsert(row): the row carries no id, so the
\* primary key never conflicts and the statement is an INSERT; it is rejected
\* when UNIQUE(user_id, date) is violated.
AttendanceUpsert(table, row) ==
    IF \E r \in table : r.user_id = row.user_id /\ r.date = row.date
    THEN [error |-> TRUE, table |-> table]
    ELSE [error |-> FALSE, table |-> table \cup {row}]

\* new Date(string) is an Invalid Date unless the string holds a time of
\* day, and toISOString() throws a RangeError on an Invalid Date
ValidTime(hm) == Len(hm) = 2 /\ hm[1] \in 0..23 /\ hm[2] \in 0..59

Throws(data) ==
    \E hm \in {data.clock_in, data.clock_out, data.break_start, data.break_end} :
       Truthy(hm) /\ ~ValidTime(hm)

\* attendanceForm.handleSubmit(data => createAttendanceMutation.mutate(data))
\* with mutationFn, onSuccess and onError. Of the row, the free-text notes
\* are not kept.
SubmitAttendance ==
    /\ attForm.user_id # ""
    /\ IF Throws(attForm)
       THEN /\ attMutation' = [status |-> "error", variables |-> attForm]
            /\ UNCHANGED <<attForm, totalHours, attendance>>
       ELSE
       LET data == attForm
           clockIn == Instant(tz, data.date, data.clock_in)
           clockOut == Instant(tz, data.date, data.clock_out)
           breakStart == Instant(tz, data.date, data.break_start)
           breakEnd == Instant(tz, data.date, data.break_end)
           hours == ComputeTotalHours(clockIn, clockOut, breakStart, breakEnd)
           res == AttendanceUpsert(attendance,
                     [user_id |-> data.user_id, date |-> data.date,
                      clock_in |-> clockIn, clock_out |-> clockOut,
                      break_start |-> breakStart, break_end |-> breakEnd,
                      total_hours |-> ToDecimal42(hours),
                      status |-> data.status])
       IN  /\ totalHours' = hours
           /\ attendance' = res.table
           /\ attMutation' = [status |-> IF res.error THEN "error" ELSE "success",
                              variables |-> data]
           /\ attForm' = IF res.error THEN attForm ELSE AttFormDefault
    /\ UNCHANGED <<tz, userVars, leaveVars, authVars, meetVars>>

AttIdle == [status |-> "idle", variables |-> AttFormDefault]

\* The forms filled in when a day's record is entered again: 09:00 with or
\* without 17:00, with or without a break from 12:00, to 12:30
ResubmitForms ==
    { v \in AttFormValues :
         /\ v.clock_in = TimeValues[1]
         /\ v.clock_out \in {TimeValues[2], NoTime}
         /\ v.break_start \in {TimeValues[3], NoTime}
         /\ v.break_end = TimeValues[4] }

\* The fields of the attendance dialog are filled in
FillAttendanceForm(v) ==
    /\ attForm # v
    /\ attForm' = v
    /\ UNCHANGED <<tz, attMutation, totalHours, attendance, userVars, leaveVars,
                   authVars, meetVars>>

-----------------------------------------------------------------------------
(* Text *)

NULL == <<"NULL">>

Digits == {"0", "1", "2", "3", "4", "5", "6", "7", "8", "9"}

DigitVal(c) ==
    CASE c = "0" -> 0 [] c = "1" -> 1 [] c = "2" -> 2 [] c = "3" -> 3
      [] c = "4" -> 4 [] c = "5" -> 5 [] c = "6" -> 6 [] c = "7" -> 7
      [] c = "8" -> 8 [] c = "9" -> 9

DigitChar(d) ==
    CASE d = 0 -> "0" [] d = 1 -> "1" [] d = 2 -> "2" [] d = 3 -> "3"
      [] d = 4 -> "4" [] d = 5 -> "5" [] d = 6 -> "6" [] d = 7 -> "7"
      [] d = 8 -> "8" [] d = 9 -> "9"

LowerChar(c) ==
    CASE c = "A" -> "a" [] c = "B" -> "b" [] c = "C" -> "c" [] c = "D" -> "d"
      [] c = "E" -> "e" [] c = "F" -> "f" [] c = "G" -> "g" [] c = "H" -> "h"
      [] c = "I" -> "i" [] c = "J" -> "j" [] c = "K" -> "k" [] c = "L" -> "l"
      [] c = "M" -> "m" [] c = "N" -> "n" [] c = "O" -> "o" [] c = "P" -> "p"
      [] c = "Q" -> "q" [] c = "R" -> "r" [] c = "S" -> "s" [] c = "T" -> "t"
      [] c = "U" -> "u" [] c = "V" -> "v" [] c = "W" -> "w" [] c = "X" -> "x"
      [] c = "Y" -> "y" [] c = "Z" -> "z" [] OTHER -> c

\* LOWER(text)
Lower(s) == [i \in 1..Len(s) |-> LowerChar(s[i])]

\* text LIKE prefix || '%' (no prefix of the table holds a wildcard); NULL
\* LIKE ... is NULL, which WHERE treats as false
Like(s, prefix) ==
    /\ s # NULL
    /\ Len(s) >= Len(prefix)
    /\ SubSeq(s, 1, Len(prefix)) = prefix

\* SUBSTRING(text FROM n)
Substring(s, n) == SubSeq(s, n, Len(s))

RECURSIVE StripLeft(_)
StripLeft(s) ==
    IF s # << >> /\ Head(s) = " " THEN StripLeft(Tail(s)) ELSE s

RECURSIVE StripRight(_)
StripRight(s) ==
    IF s # << >> /\ s[Len(s)] = " " THEN StripRight(SubSeq(s, 1, Len(s) - 1)) ELSE s

RECURSIVE StripZeros(_)
StripZeros(s) ==
    IF Len(s) > 1 /\ Head(s) = "0" THEN StripZeros(Tail(s)) ELSE s

RECURSIVE DigitsVal(_)
DigitsVal(s) ==
    IF s = << >> THEN 0
    ELSE DigitsVal(SubSeq(s, 1, Len(s) - 1)) * 10 + DigitVal(s[Len(s)])

MaxInt4Head == 214748364

\* CAST(text AS INTEGER): blanks around, an optional sign, at least one
\* decimal digit; anything else, or a value outside int4, is an error.
CastInteger(s) ==
    LET body == StripRight(StripLeft(s))
        signed == body # << >> /\ Head(body) \in {"-", "+"}
        neg == body # << >> /\ Head(body) = "-"
        ds == IF signed THEN Tail(body) ELSE body
        sig == StripZeros(ds)
        n == Len(sig)
        inRange ==
            \/ n <= 9
            \/ /\ n = 10
               /\ LET hd == DigitsVal(SubSeq(sig, 1, 9))
                      last == DigitVal(sig[10])
                  IN  \/ hd < MaxInt4Head
                      \/ hd = MaxInt4Head /\ last <= (IF neg THEN 8 ELSE 7)
    IN  IF ds = << >> \/ \E i \in 1..Len(ds) : ds[i] \notin Digits
        THEN [ok |-> FALSE, val |-> 0]
        ELSE IF ~inRange THEN [ok |-> FALSE, val |-> 0]
        ELSE IF neg
             THEN [ok |-> TRUE,
                   val |-> IF n = 10
                           THEN (0 - DigitsVal(SubSeq(sig, 1, 9)) * 10) - DigitVal(sig[10])
                           ELSE 0 - DigitsVal(sig)]
             ELSE [ok |-> TRUE, val |-> DigitsVal(sig)]

RECURSIVE NatToText(_)
NatToText(n) ==
    IF n < 10 THEN <<DigitChar(n)>>
    ELSE NatToText(n \div 10) \o <<DigitChar(n % 10)>>

\* integer::TEXT
IntToText(n) == IF n < 0 THEN <<"-">> \o NatToText(0 - n) ELSE NatToText(n)

RECURSIVE Repeat(_, _)
Repeat(c, n) == IF n <= 0 THEN << >> ELSE <<c>> \o Repeat(c, n - 1)

\* LPAD(text, len, fill) with a one-character fill: a longer text is cut to
\* its first len characters.
LPadNoCut(s, len, fill) ==
    IF Len(s) >= len THEN s ELSE Repeat(fill, len - Len(s)) \o s

LPad(s, len, fill) ==
    IF Len(s) >= len THEN SubSeq(s, 1, len)
    ELSE Repeat(fill, len - Len(s)) \o s

SetMax(S) == CHOOSE x \in S : \A y \in S : y <= x

-----------------------------------------------------------------------------
(* Sequential id allocator: public.generate_user_id(role_name) *)

ADM == <<"A", "D", "M">>
HR == <<"H", "R">>
MGR == <<"M", "G", "R">>
EMP == <<"E", "M", "P">>
USR == <<"U", "S", "R">>

MaxInt4 == 2147483647

\* CASE LOWER(role_name) WHEN ... ELSE
RolePrefixCaseSensitive(role_name) ==
    CASE role_name = <<"a", "d", "m", "i", "n">> -> ADM
      [] role_name = <<"h", "r">> -> HR
      [] role_name = <<"m", "a", "n", "a", "g", "e", "r">> -> MGR
      [] role_name = <<"e", "m", "p", "l", "o", "y", "e", "e">> -> EMP
      [] OTHER -> USR

RolePrefix(role_name) ==
    LET r == IF role_name = NULL THEN NULL ELSE Lower(role_name)
    IN  CASE r = <<"a", "d", "m", "i", "n">> -> ADM
          [] r = <<"h", "r">> -> HR
          [] r = <<"m", "a", "n", "a", "g", "e", "r">> -> MGR
          [] r = <<"e", "m", "p", "l", "o", "y", "e", "e">> -> EMP
          [] OTHER -> USR

\* The rows the SELECT of lines 76-79 reads
MatchingLogins(prefix, rows) ==
    { u.user_id_login : u \in { x \in rows : Like(x.user_id_login, prefix) } }

\* user_counter taken from a counter of the identifiers handed out
GenerateUserIdFromSequence(role_name, rows) ==
    LET prefix == RolePrefix(role_name)
        n == Cardinality({ a \in allocated : a.prefix = prefix }) + 1
    IN  [error |-> FALSE, prefix |-> prefix, counter |-> n,
         id |-> prefix \o LPad(IntToText(n), 3, "0")]

\* The function body, run against the rows of public.users
GenerateUserId(role_name, rows) ==
    LET prefix == RolePrefix(role_name)
        casts == { CastInteger(Substring(l, Len(prefix) + 1)) :
                     l \in MatchingLogins(prefix, rows) }
        mx == IF casts = {} THEN 0 ELSE SetMax({ c.val : c \in casts })
    IN  IF (\E c \in casts : ~c.ok) \/ mx = MaxInt4
        THEN [error |-> TRUE, prefix |-> prefix, counter |-> 0, id |-> << >>]
        ELSE [error |-> FALSE, prefix |-> prefix, counter |-> mx + 1,
              id |-> prefix \o LPad(IntToText(mx + 1), 3, "0")]

-----------------------------------------------------------------------------
(* Tables public.roles and public.users *)

Admin == <<"A", "d", "m", "i", "n">>
Employee == <<"E", "m", "p", "l", "o", "y", "e", "e">>

\* The default roles; the HR role is left out of the forms of this model.
Roles ==
    { [id |-> "r-admin", role_name |-> Admin],
      [id |-> "r-employee", role_name |-> Employee] }

RoleIds == { r.id : r \in Roles }

\* roles.find(r => r.id === roleId): the set is empty when nothing is found
FindRole(roleId) == { r \in Roles : r.id = roleId }

\* users.user_id_login VARCHAR UNIQUE: NULLs never conflict
UniqueViolationOff(rows, id, login) == FALSE

UniqueViolation(rows, id, login) ==
    /\ login # NULL
    /\ \E u \in rows : u.id # id /\ u.user_id_login = login

\* INSERT INTO users: role_id must be a uuid that references public.roles,
\* user_id_login must be unique. The result is the error message, "" if none.
InsertError(rows, row) ==
    IF row.role_id \notin RoleIds THEN "invalid role_id"
    ELSE IF UniqueViolation(rows, row.id, row.user_id_login)
         THEN "duplicate key value violates unique constraint"
         ELSE ""

-----------------------------------------------------------------------------
(* Direct calls of the allocator *)

RoleNames ==
    { Admin, Employee,
      <<"A", "D", "M", "I", "N">>,
      <<"h", "r">>, <<"H", "r">>,
      <<"M", "a", "n", "a", "g", "e", "r">>,
      <<"e", "m", "p", "l", "o", "y", "e", "e">>,
      <<"E", "M", "P", "L", "O", "Y", "E", "E">>,
      <<"u", "n", "k", "n", "o", "w", "n", "-", "r", "o", "l", "e">>,
      <<"A", "d", "m", "i", "n", "s">>,
      << >> }

PoolSize == 8

\* Login identifiers of rows that exist when the allocator is called: issued
\* earlier, typed into the User ID field, or NULL (rows older than the column)
PoolLogins ==
    << EMP \o <<"0", "0", "1">>,
       EMP \o <<"0", "0", "2">>,
       EMP \o <<"1", "0", "0">>,
       EMP \o <<"9", "9", "9">>,
       ADM \o <<"0", "0", "1">>,
       EMP \o <<"7">>,
       NULL,
       EMP \o <<"X">>,
       EMP \o <<"1", "0", "0", "0">>,
       USR \o <<"0", "4", "1">> >>

PoolRows == { [id |-> i, user_id_login |-> PoolLogins[i], role_id |-> "r-employee"] :
                i \in 1..PoolSize }

RpcNone(role_name) ==
    [status |-> "none", role_name |-> role_name, prefix |-> << >>,
     counter |-> 0, id |-> << >>]

\* supabase.rpc('generate_user_id', { role_name })
CallGenerateUserId ==
    /\ rpc.status = "none"
    /\ LET res == GenerateUserId(rpc.role_name, users)
       IN  rpc' = [status |-> IF res.error THEN "error" ELSE "ok",
                   role_name |-> rpc.role_name, prefix |-> res.prefix,
                   counter |-> res.counter, id |-> res.id]
    /\ UNCHANGED <<attVars, leaveVars, authVars, meetVars, users, flow, nextId, allocated>>

-----------------------------------------------------------------------------
(* UserForm.handleSubmit and handleDeleteUser *)

Flows == {"A", "B"}

\* What the User ID field can hold: empty, or a typed identifier
TypedIds == { << >>, EMP \o <<"0", "0", "1">> }

\* pc: the await the handler is suspended at; typed: formData.user_id_login;
\* userIdLogin: the local variable; seen: the logins the allocator's SELECT
\* matched; target: user.id of the edited user; updateLogin:
\* updateData.user_id_login (NULL when the key is not set); onSuccess: the
\* handler has called onSuccess()
FlowIdle ==
    [pc |-> "idle", role_id |-> "", typed |-> << >>, userIdLogin |-> << >>,
     seen |-> {}, target |-> 0, updateLogin |-> NULL, toast |-> "none",
     open |-> FALSE, loading |-> FALSE, onSuccess |-> FALSE]

\* The create dialog is filled in and submitted: lines 124-126, 169-176
SubmitCreate(f, roleId, typed) ==
    /\ flow[f].pc = "idle"
    /\ nextId < MaxInserts
    /\ flow' = [flow EXCEPT ![f] =
         [FlowIdle EXCEPT
            !.pc = IF Truthy(typed) THEN "dupcheck"
                   ELSE IF FindRole(roleId) = {} THEN "insert" ELSE "rpc",
            !.role_id = roleId,
            !.typed = typed,
            !.userIdLogin = typed,
            !.open = TRUE,
            !.loading = TRUE]]
    /\ UNCHANGED <<attVars, leaveVars, authVars, meetVars, users, rpc, nextId, allocated>>

\* The rows generate_user_id reads
SnapshotWithReservations(f) ==
    users \cup { [id |-> 0, user_id_login |-> flow[g].userIdLogin, role_id |-> ""] :
                   g \in { h \in Flows : h # f /\ flow[h].pc = "insert" } }

Snapshot(f) == users

\* generateUserIdAndPassword, the rpc answers: lines 109-121
RpcGenerate(f) ==
    /\ flow[f].pc = "rpc"
    /\ LET role == CHOOSE r \in Roles : r.id = flow[f].role_id
           res == GenerateUserId(role.role_name, Snapshot(f))
       IN  /\ flow' = [flow EXCEPT ![f].pc = "insert",
                                   ![f].seen = MatchingLogins(res.prefix, users),
                                   ![f].userIdLogin =
                                       IF res.error THEN << >> ELSE res.id]
           /\ allocated' = IF res.error THEN allocated
                           ELSE allocated \cup {[prefix |-> res.prefix, id |-> res.id]}
    /\ UNCHANGED <<attVars, leaveVars, authVars, meetVars, users, rpc, nextId>>

\* A create flow that goes on to the insert without the duplicate check
DupCheckSkipped(f) ==
    /\ flow[f].pc = "dupcheck"
    /\ flow' = [flow EXCEPT ![f].pc = "insert"]
    /\ UNCHANGED <<attVars, leaveVars, authVars, meetVars, users, rpc, nextId, allocated>>

\* The duplicate check of a typed identifier: lines 178-189, 249-257
DupCheck(f) ==
    /\ flow[f].pc = "dupcheck"
    /\ flow' = [flow EXCEPT ![f] =
         IF \E u \in users : u.user_id_login = flow[f].userIdLogin
         THEN [FlowIdle EXCEPT !.toast = "User ID already exists", !.open = TRUE]
         ELSE [@ EXCEPT !.pc = "insert"]]
    /\ UNCHANGED <<attVars, leaveVars, authVars, meetVars, users, rpc, nextId, allocated>>

\* The insert answers: lines 195-209, 249-257
InsertUser(f) ==
    /\ flow[f].pc = "insert"
    /\ nextId < MaxInserts
    /\ LET row == [id |-> nextId + 1, user_id_login |-> flow[f].userIdLogin,
                   role_id |-> flow[f].role_id]
       IN  IF InsertError(users, row) # ""
           THEN /\ flow' = [flow EXCEPT ![f] =
                     [FlowIdle EXCEPT !.toast = InsertError(users, row),
                                      !.open = TRUE]]
                /\ UNCHANGED <<users, nextId>>
           ELSE /\ users' = users \cup {row}
                /\ nextId' = nextId + 1
                /\ flow' = [flow EXCEPT ![f].pc = "email"]
    /\ UNCHANGED <<attVars, leaveVars, authVars, meetVars, rpc, allocated>>

\* A failed email that ends the flow like a failed insert
SendCredentialsFailsCreation(f, sent) ==
    /\ flow[f].pc = "email"
    /\ flow' = [flow EXCEPT ![f] =
         IF sent
         THEN [FlowIdle EXCEPT !.toast = "created, credentials sent",
                               !.onSuccess = TRUE]
         ELSE [FlowIdle EXCEPT !.toast = "Failed to save user", !.open = TRUE]]
    /\ UNCHANGED <<attVars, leaveVars, authVars, meetVars, users, rpc, nextId, allocated>>

\* send-user-credentials answers or fails: lines 212-248, 255-257
SendCredentials(f, sent) ==
    /\ flow[f].pc = "email"
    /\ flow' = [flow EXCEPT ![f] =
         [FlowIdle EXCEPT !.toast = IF sent THEN "created, credentials sent"
                                    ELSE "created, email failed",
                          !.onSuccess = TRUE]]
    /\ UNCHANGED <<attVars, leaveVars, authVars, meetVars, users, rpc, nextId, allocated>>

\* The edit dialog of user u is submitted: lines 129-141. Of the edited
\* fields the model keeps user_id_login.
SubmitEdit(f, u, typed) ==
    /\ flow[f].pc = "idle"
    /\ u \in users
    /\ flow' = [flow EXCEPT ![f] =
         [FlowIdle EXCEPT
            !.pc = IF Truthy(typed) /\ typed # u.user_id_login
                   THEN "editcheck" ELSE "update",
            !.role_id = u.role_id,
            !.typed = typed,
            !.userIdLogin = typed,
            !.target = u.id,
            !.open = TRUE,
            !.loading = TRUE]]
    /\ UNCHANGED <<attVars, leaveVars, authVars, meetVars, users, rpc, nextId, allocated>>

\* The duplicate check of the edit: lines 143-154
EditCheck(f) ==
    /\ flow[f].pc = "editcheck"
    /\ flow' = [flow EXCEPT ![f] =
         IF \E u \in users : /\ u.user_id_login = flow[f].userIdLogin
                             /\ u.id # flow[f].target
         THEN [FlowIdle EXCEPT !.toast = "User ID already exists", !.open = TRUE]
         ELSE [@ EXCEPT !.pc = "update", !.updateLogin = flow[f].userIdLogin]]
    /\ UNCHANGED <<attVars, leaveVars, authVars, meetVars, users, rpc, nextId, allocated>>

\* The update answers: lines 156-166, 247-257. An update that matches no
\* row is not an error.
UpdateUser(f) ==
    /\ flow[f].pc = "update"
    /\ LET new == flow[f].updateLogin
           Upd(u) == IF u.id = flow[f].target /\ new # NULL
                     THEN [u EXCEPT !.user_id_login = new] ELSE u
           hit == \E u \in users : u.id = flow[f].target
       IN  IF hit /\ new # NULL /\ UniqueViolation(users, flow[f].target, new)
           THEN /\ flow' = [flow EXCEPT ![f] =
                     [FlowIdle EXCEPT
                        !.toast = "duplicate key value violates unique constraint",
                        !.open = TRUE]]
                /\ UNCHANGED users
           ELSE /\ users' = { Upd(u) : u \in users }
                /\ flow' = [flow EXCEPT ![f] = [FlowIdle EXCEPT !.toast = "updated",
                                                                !.onSuccess = TRUE]]
    /\ UNCHANGED <<attVars, leaveVars, authVars, meetVars, rpc, nextId, allocated>>

\* handleDeleteUser, confirmed: Dashboard.tsx lines 549-574
DeleteUser(u) ==
    /\ u \in users
    /\ users' = users \ {u}
    /\ UNCHANGED <<attVars, leaveVars, authVars, meetVars, rpc, flow, nextId, allocated>>

-----------------------------------------------------------------------------
(* Leave requests: createLeaveRequestMutation, updateLeaveRequestMutation *)

NumDates == 3
MaxLeaves == 1

NoDate == << >>

\* 2024-01-10, as days since the epoch
FirstDay == 19732

\* The days the Calendar offers
LeaveDays == FirstDay .. (FirstDay + NumDates - 1)

\* Calendar onSelect: the Date of a picked day is its local midnight
PickedDate(day) == [day |-> day, min |-> 0]

LeaveUsers == {"u1"}
LeaveTypes == {"annual"}
Reasons == { << >>, <<"f", "l", "u">> }

\* What the leave request dialog can hold when it is submitted; an
\* employee is always selected
LeaveFormValues ==
    [user_id : LeaveUsers,
     leave_type : LeaveTypes,
     start_date : { PickedDate(d) : d \in LeaveDays } \cup {NoDate},
     end_date : { PickedDate(d) : d \in LeaveDays } \cup {NoDate},
     reason : Reasons]

\* form defaultValues, with nobody signed in
LeaveFormDefault ==
    [user_id |-> "", leave_type |-> "annual", start_date |-> NoDate,
     end_date |-> NoDate, reason |-> << >>]

\* Date >= Date
DateGE(l, r) == l.day > r.day \/ (l.day = r.day /\ l.min >= r.min)

\* The schema without its refinement
LeaveRequestSchemaNoRefine(data) ==
    /\ data.user_id # ""
    /\ data.leave_type # ""
    /\ data.start_date # NoDate
    /\ data.end_date # NoDate
    /\ data.reason # << >>

\* leaveRequestSchema: z.string().min(1), z.date() and the refinement
\* end_date >= start_date
LeaveRequestSchema(data) ==
    /\ data.user_id # ""
    /\ data.leave_type # ""
    /\ data.start_date # NoDate
    /\ data.end_date # NoDate
    /\ data.reason # << >>
    /\ DateGE(data.end_date, data.start_date)

\* date-fns compareLocalAsc: the sign of the first differing local field
CompareLocalAsc(l, r) ==
    IF l.day # r.day THEN (IF l.day < r.day THEN -1 ELSE 1)
    ELSE IF l.min # r.min THEN (IF l.min < r.min THEN -1 ELSE 1)
    ELSE 0

\* date-fns differenceInCalendarDays
DifferenceInCalendarDays(l, r) == l.day - r.day

Abs(n) == IF n < 0 THEN -n ELSE n

\* date-fns differenceInDays: full days between the two dates, a last day
\* that is not full is not counted
DifferenceInDays(l, r) ==
    LET sign == CompareLocalAsc(l, r)
        difference == Abs(DifferenceInCalendarDays(l, r))
        moved == [l EXCEPT !.day = l.day - sign * difference]
        isLastDayNotFull == IF CompareLocalAsc(moved, r) = -sign THEN 1 ELSE 0
    IN  sign * (difference - isLastDayNotFull)

\* format(date, "yyyy-MM-dd") stored in a DATE column: the local calendar day
FormatDate(date) == date.day

\* The day count without the last day
DaysRequestedExclusive(data) == DifferenceInDays(data.end_date, data.start_date)

\* daysRequested
DaysRequested(data) == DifferenceInDays(data.end_date, data.start_date) + 1

\* approved_at of a request nobody has decided: NULL, kept as tick 0 (the
\* clock starts at 1)
NoTick == 0

\* The inserted row; status, approved_by, approved_at and rejection_reason
\* take the column defaults
LeaveRow(id, data) ==
    [id |-> id,
     user_id |-> data.user_id,
     leave_type |-> data.leave_type,
     start_date |-> FormatDate(data.start_date),
     end_date |-> FormatDate(data.end_date),
     days_requested |-> DaysRequested(data),
     reason |-> data.reason,
     status |-> "pending",
     approved_by |-> NULL,
     approved_at |-> NoTick,
     rejection_reason |-> NULL]

LeaveIdle == [status |-> "idle", variables |-> LeaveFormDefault]

\* Browser sessions of the leave requests page (isAdminOrHR is true in all)
Approvers == {"hr1", "hr2"}

\* currentUser?.id of a session
CurrentUserId(a) == <<a>>

\* form.handleSubmit(data => createLeaveRequestMutation.mutate(data)) in
\* session a: validation, then the insert, which fails or answers, then
\* onSuccess with the refetch of the invalidated query
SubmitLeaveRequest(a, data) ==
    /\ Cardinality(leaves) < MaxLeaves
    /\ IF ~LeaveRequestSchema(data)
       THEN /\ leaveSubmit' = [status |-> "invalid", variables |-> data]
            /\ UNCHANGED <<leaves, lists>>
       ELSE \/ /\ leaveSubmit' = [status |-> "error", variables |-> data]
               /\ UNCHANGED <<leaves, lists>>
            \/ /\ leaves' = leaves \cup {LeaveRow(Cardinality(leaves) + 1, data)}
               /\ leaveSubmit' = [status |-> "success", variables |-> data]
               /\ lists' = [lists EXCEPT ![a] = leaves']
    /\ UNCHANGED <<attVars, userVars, authVars, meetVars, clock>>

\* The leave-requests query of session a runs
FetchLeaveRequests(a) ==
    /\ lists[a] # leaves
    /\ lists' = [lists EXCEPT ![a] = leaves]
    /\ UNCHANGED <<attVars, userVars, authVars, meetVars, leaves, leaveSubmit, clock>>

\* A reason that counts whenever the prompt was not dismissed
ReasonTruthyNotNull(reason) == reason # NULL

\* if (reason), if (rejectionReason): null and "" are falsy
ReasonTruthy(reason) == reason # NULL /\ reason # << >>

\* updateData: the keys the update sets
UpdateData(a, status, rejectionReason) ==
    [status |-> status, approved_by |-> CurrentUserId(a), approved_at |-> clock]
      @@ (IF ReasonTruthy(rejectionReason)
          THEN [rejection_reason |-> rejectionReason] ELSE << >>)

\* The update recomputing the day count from the stored dates
ApplyUpdateRecomputeDays(r, updateData) ==
    [k \in DOMAIN r |->
       IF k \in DOMAIN updateData THEN updateData[k]
       ELSE IF k = "days_requested" THEN r.end_date - r.start_date
       ELSE r[k]]

\* UPDATE ... SET the given columns
ApplyUpdate(r, updateData) ==
    [k \in DOMAIN r |-> IF k \in DOMAIN updateData THEN updateData[k] ELSE r[k]]

\* updateLeaveRequestMutation: update(updateData).eq("id", id), then
\* onSuccess with the refetch of the invalidated query
UpdateLeaveRequest(a, id, status, rejectionReason) ==
    /\ leaves' = { IF r.id = id
                   THEN ApplyUpdate(r, UpdateData(a, status, rejectionReason))
                   ELSE r : r \in leaves }
    /\ lists' = [lists EXCEPT ![a] = leaves']
    /\ clock' = clock + 1
    /\ UNCHANGED <<attVars, userVars, authVars, meetVars, leaveSubmit>>

\* The Approve and Reject buttons are rendered for the requests that are
\* pending in the fetched list
ButtonsShown(a, id) == \E r \in lists[a] : r.id = id /\ r.status = "pending"

\* handleApprove
HandleApprove(a, id) ==
    /\ ButtonsShown(a, id)
    /\ UpdateLeaveRequest(a, id, "approved", NULL)

\* What prompt() returns: null when dismissed, or the text entered
PromptAnswers == { NULL, << >>, <<"n", "o">> }

\* handleReject
HandleReject(a, id, reason) ==
    /\ ButtonsShown(a, id)
    /\ IF ReasonTruthy(reason)
       THEN UpdateLeaveRequest(a, id, "rejected", reason)
       ELSE UNCHANGED vars

-----------------------------------------------------------------------------
(* Meetings: the status buttons of the Meetings page, MeetingForm in edit mode *)

NumPeople == 2

\* ids of rows of public.users
PersonIds == 1..NumPeople

\* Browser sessions that show the Meetings page
MeetSessions == {"s1", "s2", "s3"}

\* What is typed into the title field
Titles == {"t1", "t2"}

\* The meeting that exists, as the create branch stores it: status
\* "scheduled", its participants invited
MeetingRow == [id |-> "m1", title |-> "t1", status |-> "scheduled"]

\* A row of meeting_participants as the form inserts it
ParticipantRow(meetingId, userId) ==
    [meeting_id |-> meetingId, user_id |-> userId, status |-> "invited"]

\* The newStatus values the buttons pass to handleStatusChange
ButtonStatuses == {"in-progress", "completed", "scheduled", "cancelled"}

\* Start, Complete, Hold and Cancel are rendered from the status of the
\* meeting in the fetched list
ButtonShown(status, newStatus) ==
    CASE newStatus = "in-progress" -> status = "scheduled"
      [] newStatus = "completed" -> status = "in-progress"
      [] newStatus = "scheduled" -> status = "in-progress"
      [] newStatus = "cancelled" -> status # "completed"

\* fetchMeetings
FetchMeetings(s) ==
    /\ meetingLists' = [meetingLists EXCEPT ![s] = meetings]
    /\ UNCHANGED <<attVars, userVars, leaveVars, authVars,
                   meetings, meetingParticipants, people, meetingEdit>>

\* handleStatusChange, called by a button of the row the session shows:
\* update({status: newStatus}).eq("id", meetingId), then fetchMeetings
HandleStatusChange(s, meetingId, newStatus) ==
    /\ \E m \in meetingLists[s] :
          m.id = meetingId /\ ButtonShown(m.status, newStatus)
    /\ meetings' = { IF m.id = meetingId THEN [m EXCEPT !.status = newStatus]
                     ELSE m : m \in meetings }
    /\ meetingLists' = [meetingLists EXCEPT ![s] = meetings']
    /\ UNCHANGED <<attVars, userVars, leaveVars, authVars,
                   meetingParticipants, people, meetingEdit>>

\* handleDeleteUser for a user that meetings invite: the participant rows
\* go with the user (ON DELETE CASCADE)
HandleDeleteUserCascade(u) ==
    /\ u \in people
    /\ people' = people \ {u}
    /\ meetingParticipants' = { p \in meetingParticipants : p.user_id # u }
    /\ UNCHANGED <<attVars, userVars, leaveVars, authVars,
                   meetings, meetingLists, meetingEdit>>

\* The dialog closed. before: the stored meeting and its participants when
\* handleSubmit was called; result: what the last handleSubmit reported
EditIdle ==
    [pc |-> "idle", session |-> "s1", id |-> "",
     formData |-> [title |-> "", status |-> "scheduled"],
     selectedParticipants |-> {}, before |-> <<{}, {}>>, result |-> "none"]

\* The stored meeting with the id and its participant rows
Stored(meetingId) ==
    << { m \in meetings : m.id = meetingId },
       { p \in meetingParticipants : p.meeting_id = meetingId } >>

\* The Edit button: setEditingMeeting(meeting), and the effect of the form
\* that opens: setFormData(meeting), fetchMeetingParticipants(meeting.id)
SetEditingMeeting(s, m) ==
    /\ meetingEdit.pc = "idle"
    /\ m \in meetingLists[s]
    /\ meetingEdit' =
         [EditIdle EXCEPT
            !.pc = "form", !.session = s, !.id = m.id,
            !.formData = [title |-> m.title, status |-> m.status],
            !.selectedParticipants =
                { p.user_id : p \in { q \in meetingParticipants :
                                         q.meeting_id = m.id } }]
    /\ UNCHANGED <<attVars, userVars, leaveVars, authVars,
                   meetings, meetingParticipants, people, meetingLists>>

\* The title field is edited
SetTitle(title) ==
    /\ meetingEdit.pc = "form"
    /\ title # meetingEdit.formData.title
    /\ meetingEdit' = [meetingEdit EXCEPT !.formData.title = title]
    /\ UNCHANGED <<attVars, userVars, leaveVars, authVars,
                   meetings, meetingParticipants, people, meetingLists>>

\* handleParticipantChange: a checkbox of a listed user is switched
HandleParticipantChange(userId, checked) ==
    /\ meetingEdit.pc = "form"
    /\ userId \in people
    /\ checked = (userId \notin meetingEdit.selectedParticipants)
    /\ meetingEdit' =
         [meetingEdit EXCEPT !.selectedParticipants =
             IF checked THEN @ \cup {userId} ELSE @ \ {userId}]
    /\ UNCHANGED <<attVars, userVars, leaveVars, authVars,
                   meetings, meetingParticipants, people, meetingLists>>

\* handleSubmit with meeting.id set: up to the await of the update
HandleSubmit ==
    /\ meetingEdit.pc = "form"
    /\ meetingEdit' = [meetingEdit EXCEPT !.pc = "update",
                                          !.before = Stored(meetingEdit.id),
                                          !.result = "none"]
    /\ UNCHANGED <<attVars, userVars, leaveVars, authVars,
                   meetings, meetingParticipants, people, meetingLists>>

\* The end of a handleSubmit that threw: the toast of the catch, the dialog
\* stays open
EditFailed == [meetingEdit EXCEPT !.pc = "form", !.result = "error"]

\* The end of a handleSubmit that did not throw: the success toast,
\* onOpenChange(false), onSuccess() with setEditingMeeting(null)
EditDone == [EditIdle EXCEPT !.session = meetingEdit.session,
                             !.id = meetingEdit.id,
                             !.before = meetingEdit.before,
                             !.selectedParticipants =
                                 meetingEdit.selectedParticipants,
                             !.result = "success"]

\* update({title, ..., status}).eq("id", meeting.id) answers
UpdateMeeting(ok) ==
    /\ meetingEdit.pc = "update"
    /\ IF ok
       THEN /\ meetings' =
                 { IF m.id = meetingEdit.id
                   THEN [m EXCEPT !.title = meetingEdit.formData.title,
                                  !.status = meetingEdit.formData.status]
                   ELSE m : m \in meetings }
            /\ meetingEdit' = [meetingEdit EXCEPT !.pc = "delete"]
       ELSE /\ meetingEdit' = EditFailed
            /\ UNCHANGED meetings
    /\ UNCHANGED <<attVars, userVars, leaveVars, authVars,
                   meetingParticipants, people, meetingLists>>

\* delete().eq("meeting_id", meeting.id) answers; with nobody selected the
\* handler is through and onSuccess fetches the meetings
DeleteParticipants ==
    /\ meetingEdit.pc = "delete"
    /\ meetingParticipants' =
         { p \in meetingParticipants : p.meeting_id # meetingEdit.id }
    /\ IF meetingEdit.selectedParticipants = {}
       THEN /\ meetingEdit' = EditDone
            /\ meetingLists' =
                 [meetingLists EXCEPT ![meetingEdit.session] = meetings]
       ELSE /\ meetingEdit' = [meetingEdit EXCEPT !.pc = "insert"]
            /\ UNCHANGED meetingLists
    /\ UNCHANGED <<attVars, userVars, leaveVars, authVars, meetings, people>>

\* insert(participantData) answers: it fails as a whole when the service
\* fails, when a selected user is gone (user_id REFERENCES users) or when a
\* row of the meeting and user exists (UNIQUE(meeting_id, user_id))
InsertParticipants(ok) ==
    /\ meetingEdit.pc = "insert"
    /\ LET participantData ==
               { ParticipantRow(meetingEdit.id, userId) :
                    userId \in meetingEdit.selectedParticipants }
           accepted ==
               /\ ok
               /\ meetingEdit.selectedParticipants \subseteq people
               /\ \E m \in meetings : m.id = meetingEdit.id
               /\ ~\E p \in meetingParticipants, d \in participantData :
                      p.meeting_id = d.meeting_id /\ p.user_id = d.user_id
       IN  IF accepted
           THEN /\ meetingParticipants' = meetingParticipants \cup participantData
                /\ meetingEdit' = EditDone
                /\ meetingLists' =
                     [meetingLists EXCEPT ![meetingEdit.session] = meetings]
           ELSE /\ meetingEdit' = EditFailed
                /\ UNCHANGED <<meetingParticipants, meetingLists>>
    /\ UNCHANGED <<attVars, userVars, leaveVars, authVars, meetings, people>>

-----------------------------------------------------------------------------
(* Authentication: AuthProvider, signIn, signOut, ProtectedRoute *)

Pw1 == <<"p", "w", "1">>
Pw2 == <<"p", "w", "2">>
Passwords == {Pw1, Pw2}

\* bcrypt.hash(password, 10); the salt is left out
BcryptHash(password) == <<"$2a$10$">> \o password

\* btoa(password), the password_hash the older user form stores
Btoa(password) == <<"base64:">> \o password

\* bcrypt.compare(password, hash); a text that is no bcrypt hash compares
\* false
BcryptCompare(password, hash) == hash = BcryptHash(password)

\* Rows of public.users, with the role joined: an active user, an inactive
\* one, one without password_hash, one with a base64 password_hash, and a
\* second active user
AuthTable ==
    { [id |-> 1, user_id_login |-> EMP \o <<"0", "0", "1">>, is_active |-> TRUE,
       password_hash |-> BcryptHash(Pw1), role |-> Employee],
      [id |-> 2, user_id_login |-> ADM \o <<"0", "0", "1">>, is_active |-> FALSE,
       password_hash |-> BcryptHash(Pw1), role |-> Admin],
      [id |-> 3, user_id_login |-> EMP \o <<"0", "0", "2">>, is_active |-> TRUE,
       password_hash |-> NULL, role |-> Employee],
      [id |-> 4, user_id_login |-> EMP \o <<"0", "0", "3">>, is_active |-> TRUE,
       password_hash |-> Btoa(Pw1), role |-> Employee],
      [id |-> 5, user_id_login |-> ADM \o <<"0", "0", "2">>, is_active |-> TRUE,
       password_hash |-> BcryptHash(Pw2), role |-> Admin] }

\* What can be typed as user id: the logins of the table and one of nobody
LoginInputs ==
    { r.user_id_login : r \in AuthTable } \cup { EMP \o <<"9", "9", "9">> }

\* user === null is << >>, a user is <<row>>
NoUser == << >>

\* localStorage.getItem("authUser") === null is << >>, an entry is <<text>>
NoEntry == << >>

\* JSON.stringify(userWithRole): the values in the order of the keys
JsonStringify(u) == <<u.id, u.user_id_login, u.is_active, u.password_hash, u.role>>

\* JSON.parse(savedUser)
JsonParse(t) ==
    [id |-> t[1], user_id_login |-> t[2], is_active |-> t[3],
     password_hash |-> t[4], role |-> t[5]]

\* ProtectedRoute rendering its children whenever loading is over
ProtectedRouteNoUserCheck(user, loading) ==
    IF loading THEN "Loading..." ELSE "children"

\* ProtectedRoute
ProtectedRoute(user, loading) ==
    IF loading THEN "Loading..."
    ELSE IF user = NoUser THEN "Navigate /login"
    ELSE "children"

SignInIdle ==
    [pc |-> "idle", userIdLogin |-> << >>, password |-> << >>,
     userData |-> << >>, result |-> "none"]

\* The rows with the login, whatever is_active holds
SelectUserAnyStatus(userIdLogin) ==
    { r \in AuthTable : r.user_id_login = userIdLogin }

\* .eq("user_id_login", userIdLogin).eq("is_active", true)
SelectUser(userIdLogin) ==
    { r \in AuthTable : r.user_id_login = userIdLogin /\ r.is_active }

\* localStorage.removeItem leaving the entry in place
RemoveItemKeeps(entry) == entry

\* localStorage.removeItem("authUser")
RemoveItem(entry) == NoEntry

\* AuthProvider useEffect: the saved user is read once, after the first
\* render
InitialLoad ==
    /\ authLoading
    /\ authUser' = IF localStorage # NoEntry
                   THEN <<JsonParse(localStorage[1])>> ELSE authUser
    /\ authLoading' = FALSE
    /\ rendered' = ProtectedRoute(authUser', authLoading')
    /\ UNCHANGED <<attVars, userVars, leaveVars, meetVars, localStorage, signInCall>>

\* signIn is called: up to the await of the select
SignIn(userIdLogin, password) ==
    /\ ~authLoading
    /\ signInCall.pc = "idle"
    /\ signInCall' = [pc |-> "query", userIdLogin |-> userIdLogin,
                      password |-> password, userData |-> << >>,
                      result |-> "none"]
    /\ UNCHANGED <<attVars, userVars, leaveVars, meetVars,
                   authUser, authLoading, localStorage, rendered>>

\* The select answers; .single() is an error unless exactly one row matches
SignInQuery ==
    /\ signInCall.pc = "query"
    /\ LET rows == SelectUser(signInCall.userIdLogin)
       IN  signInCall' =
              IF Cardinality(rows) # 1
              THEN [SignInIdle EXCEPT
                      !.userIdLogin = signInCall.userIdLogin,
                      !.password = signInCall.password,
                      !.result = "Invalid user ID or user is inactive"]
              ELSE [signInCall EXCEPT !.pc = "compare",
                                      !.userData = <<CHOOSE r \in rows : TRUE>>]
    /\ UNCHANGED <<attVars, userVars, leaveVars, meetVars,
                   authUser, authLoading, localStorage, rendered>>

\* The password_hash check and bcrypt.compare
SignInCompare ==
    /\ signInCall.pc = "compare"
    /\ LET userData == signInCall.userData[1]
       IN  signInCall' =
              IF userData.password_hash = NULL \/ userData.password_hash = << >>
              THEN [signInCall EXCEPT !.pc = "idle",
                                      !.result = "Password not set for this user"]
              ELSE IF ~BcryptCompare(signInCall.password, userData.password_hash)
              THEN [signInCall EXCEPT !.pc = "idle", !.result = "Invalid password"]
              ELSE [signInCall EXCEPT !.pc = "update"]
    /\ UNCHANGED <<attVars, userVars, leaveVars, meetVars,
                   authUser, authLoading, localStorage, rendered>>

\* The last_login update has answered (its result is not looked at):
\* setUser and localStorage.setItem
SignInFinish ==
    /\ signInCall.pc = "update"
    /\ authUser' = <<signInCall.userData[1]>>
    /\ localStorage' = <<JsonStringify(signInCall.userData[1])>>
    /\ signInCall' = [signInCall EXCEPT !.pc = "idle", !.result = "ok"]
    /\ rendered' = ProtectedRoute(authUser', authLoading)
    /\ UNCHANGED <<attVars, userVars, leaveVars, meetVars, authLoading>>

\* signOut, from the TopBar of a protected page
SignOut ==
    /\ rendered = "children"
    /\ authUser' = NoUser
    /\ localStorage' = RemoveItem(localStorage)
    /\ rendered' = ProtectedRoute(authUser', authLoading)
    /\ UNCHANGED <<attVars, userVars, leaveVars, meetVars, authLoading, signInCall>>

-----------------------------------------------------------------------------
(* Specifications *)

AttInit ==
    /\ tz = [off |-> 0, at |-> MinPerDay, shift |-> 0]
    /\ attForm = AttFormDefault
    /\ attMutation = AttIdle
    /\ totalHours = 0
    /\ attendance = {}

UserInit ==
    /\ users = {}
    /\ rpc = RpcNone(<< >>)
    /\ flow = [f \in Flows |-> FlowIdle]
    /\ nextId = 0
    /\ allocated = {}

LeaveInit ==
    /\ leaves = {}
    /\ leaveSubmit = LeaveIdle
    /\ lists = [a \in Approvers |-> {}]
    /\ clock = 1

\* The application has just been opened in a browser without a saved user
AuthInit ==
    /\ authUser = NoUser
    /\ authLoading = TRUE
    /\ localStorage = NoEntry
    /\ rendered = ProtectedRoute(NoUser, TRUE)
    /\ signInCall = SignInIdle

\* One scheduled meeting with the first user invited; no session has
\* fetched the meetings yet
MeetInit ==
    /\ meetings = {MeetingRow}
    /\ meetingParticipants = {ParticipantRow(MeetingRow.id, 1)}
    /\ people = PersonIds
    /\ meetingLists = [s \in MeetSessions |-> {}]
    /\ meetingEdit = EditIdle

\* Attendance page: a filled-in form is submitted
InitHours ==
    /\ tz \in TimeZones
    /\ attForm \in AttFormValues
    /\ attMutation = AttIdle
    /\ totalHours = 0
    /\ attendance = {}
    /\ UserInit
    /\ LeaveInit
    /\ AuthInit
    /\ MeetInit

NextHours == SubmitAttendance

SpecHours == InitHours /\ [][NextHours]_vars

\* Attendance page: forms are filled in and submitted one after another
InitAtt ==
    /\ tz \in TimeZones
    /\ attForm = AttFormDefault
    /\ attMutation = AttIdle
    /\ totalHours = 0
    /\ attendance = {}
    /\ UserInit
    /\ LeaveInit
    /\ AuthInit
    /\ MeetInit

NextAtt ==
    \/ \E v \in ResubmitForms : FillAttendanceForm(v)
    \/ SubmitAttendance

SpecAtt == InitAtt /\ [][NextAtt]_vars

\* The allocator called on a table of existing rows
InitAlloc ==
    /\ AttInit
    /\ users \in SUBSET PoolRows
    /\ rpc \in { RpcNone(r) : r \in RoleNames }
    /\ flow = [f \in Flows |-> FlowIdle]
    /\ nextId = 0
    /\ allocated = {}
    /\ LeaveInit
    /\ AuthInit
    /\ MeetInit

NextAlloc == CallGenerateUserId

SpecAlloc == InitAlloc /\ [][NextAlloc]_vars

\* User administration from an empty users table
Init == AttInit /\ UserInit /\ LeaveInit /\ AuthInit /\ MeetInit

NextFlows(FS) ==
    \/ \E f \in FS, roleId \in RoleIds \cup {""}, typed \in TypedIds :
          SubmitCreate(f, roleId, typed)
    \/ \E f \in FS : RpcGenerate(f)
    \/ \E f \in FS : DupCheck(f)
    \/ \E f \in FS : InsertUser(f)
    \/ \E f \in FS, sent \in BOOLEAN : SendCredentials(f, sent)
    \/ \E f \in FS, u \in users, typed \in TypedIds : SubmitEdit(f, u, typed)
    \/ \E f \in FS : EditCheck(f)
    \/ \E f \in FS : UpdateUser(f)
    \/ \E u \in users : DeleteUser(u)

Next == NextFlows(Flows)

Spec == Init /\ [][Next]_vars

\* One session only: creations, edits and deletions happen one after another
NextSeq == NextFlows({"A"})

SpecSeq == Init /\ [][NextSeq]_vars

\* Authentication in one browser tab; localStorage may hold the user saved
\* by an earlier sign-in
InitAuth ==
    /\ AttInit /\ UserInit /\ LeaveInit /\ MeetInit
    /\ authUser = NoUser
    /\ authLoading = TRUE
    /\ localStorage \in
          {NoEntry} \cup
          { <<JsonStringify(r)>> :
              r \in { x \in AuthTable :
                        /\ x.is_active
                        /\ \E pw \in Passwords : x.password_hash = BcryptHash(pw) } }
    /\ rendered = ProtectedRoute(NoUser, TRUE)
    /\ signInCall = SignInIdle

NextAuth ==
    \/ InitialLoad
    \/ \E userIdLogin \in LoginInputs, password \in Passwords :
          SignIn(userIdLogin, password)
    \/ SignInQuery
    \/ SignInCompare
    \/ SignInFinish
    \/ SignOut

SpecAuth == InitAuth /\ [][NextAuth]_vars

\* Sessions on the Meetings page pressing the status buttons of the meeting
\* their list shows
NextMeet ==
    \/ \E s \in MeetSessions : FetchMeetings(s)
    \/ \E s \in MeetSessions, newStatus \in ButtonStatuses :
          \E m \in meetingLists[s] : HandleStatusChange(s, m.id, newStatus)

SpecMeet == Init /\ [][NextMeet]_vars

\* One session editing the meeting while users are deleted on the Users page
NextMeetEdit ==
    \/ FetchMeetings("s1")
    \/ \E u \in PersonIds : HandleDeleteUserCascade(u)
    \/ \E m \in meetingLists["s1"] : SetEditingMeeting("s1", m)
    \/ \E title \in Titles : SetTitle(title)
    \/ \E userId \in PersonIds, checked \in BOOLEAN :
          HandleParticipantChange(userId, checked)
    \/ HandleSubmit
    \/ \E ok \in BOOLEAN : UpdateMeeting(ok)
    \/ DeleteParticipants
    \/ \E ok \in BOOLEAN : InsertParticipants(ok)

SpecMeetEdit == Init /\ [][NextMeetEdit]_vars

\* One session in which an identifier that is no prefix and number is typed
\* as well
NextTyped ==
    \/ NextFlows({"A"})
    \/ \E roleId \in RoleIds \cup {""} : SubmitCreate("A", roleId, EMP \o <<"X">>)

SpecTyped == Init /\ [][NextTyped]_vars

\* Leave requests page: requests are created and decided in two sessions
NextLeave ==
    \/ \E a \in Approvers, data \in LeaveFormValues : SubmitLeaveRequest(a, data)
    \/ \E a \in Approvers : FetchLeaveRequests(a)
    \/ \E a \in Approvers, r \in leaves : HandleApprove(a, r.id)
    \/ \E a \in Approvers, r \in leaves, reason \in PromptAnswers :
          HandleReject(a, r.id, reason)

SpecLeave == Init /\ [][NextLeave]_vars

-----------------------------------------------------------------------------
(* Worked hours *)

\* Minutes since the epoch of a stored timestamp
EpochMin(ts) == ts.day * MinPerDay + ts.ms \div MsPerMinute

Submitted == attMutation.status # "idle"

SubmittedData == attMutation.variables

\* The row the last successful submission stored
SavedRows ==
    { r \in attendance : /\ attMutation.status = "success"
                         /\ r.user_id = SubmittedData.user_id
                         /\ r.date = SubmittedData.date }

\* C1: the worked hours computed by an attendance submission, and the
\* total_hours of every stored attendance record, are never negative,
\* whatever fields are present and in whatever order the times are, and the
\* submission of a first record for a user and date does not fail.
C1_TotalHoursNonNegative ==
    /\ totalHours >= 0
    /\ \A r \in attendance : r.total_hours >= 0
    /\ Submitted => attMutation.status = "success" /\ SavedRows # {}

\* A break longer than the work span has been submitted and stored with 0.
C1_Witness ==
    /\ attMutation.status = "success"
    /\ SubmittedData.clock_in = <<12, 0>> /\ SubmittedData.clock_out = <<12, 30>>
    /\ SubmittedData.break_start = <<9, 0>> /\ SubmittedData.break_end = <<17, 0>>
    /\ \E r \in SavedRows : r.total_hours = 0

\* C2: with clock-in and clock-out present the result is
\* max(0, (clock_out - clock_in) - (break_end - break_start)) when both break
\* fields are present and max(0, clock_out - clock_in) when neither is;
\* 09:00-17:00 with break 12:00-12:30 is 7.5 hours, without break 8 hours.
C2_WorkMinusBreak ==
    /\ \A r \in SavedRows :
          r.clock_in # NullTs /\ r.clock_out # NullTs =>
             LET work == EpochMin(r.clock_out) - EpochMin(r.clock_in)
                 brk == EpochMin(r.break_end) - EpochMin(r.break_start)
             IN  /\ r.break_start # NullTs /\ r.break_end # NullTs =>
                       totalHours = MathMax(0, work - brk) * MsPerMinute
                 /\ r.break_start = NullTs /\ r.break_end = NullTs =>
                       totalHours = MathMax(0, work) * MsPerMinute
    /\ Submitted /\ SubmittedData.clock_in = <<9, 0>>
                 /\ SubmittedData.clock_out = <<17, 0>> =>
          /\ SubmittedData.break_start = <<12, 0>>
               /\ SubmittedData.break_end = <<12, 30>> =>
                  2 * totalHours = 15 * MsPerHour
          /\ SubmittedData.break_start = NoTime
               /\ SubmittedData.break_end = NoTime =>
                  totalHours = 8 * MsPerHour

\* 09:00-17:00 with break 12:00-12:30 has been submitted: 450 minutes.
C2_Witness ==
    /\ attMutation.status = "success"
    /\ SubmittedData.clock_in = <<9, 0>> /\ SubmittedData.clock_out = <<17, 0>>
    /\ SubmittedData.break_start = <<12, 0>> /\ SubmittedData.break_end = <<12, 30>>
    /\ totalHours = 450 * MsPerMinute
    /\ \E r \in SavedRows : r.total_hours = 750

\* C3: when clock-in or clock-out is absent the result is 0, whatever the
\* other clock field and the break fields hold.
C3_MissingClockIsZero ==
    Submitted /\ (SubmittedData.clock_in = NoTime \/ SubmittedData.clock_out = NoTime)
       => /\ totalHours = 0
          /\ \A r \in SavedRows : r.total_hours = 0

\* Only the clock-in is missing; clock-out and a whole break are present.
C3_Witness ==
    /\ attMutation.status = "success"
    /\ SubmittedData.clock_in = NoTime /\ SubmittedData.clock_out = <<17, 0>>
    /\ SubmittedData.break_start = <<12, 30>> /\ SubmittedData.break_end = <<12, 0>>
    /\ \E r \in SavedRows : r.total_hours = 0 /\ r.clock_out # NullTs

\* C4: when exactly one of break_start and break_end is present the result
\* is the one for the same clock-in and clock-out without any break.
C4_HalfBreakIgnored ==
    \A r \in SavedRows :
       (r.break_start = NullTs) # (r.break_end = NullTs) =>
          totalHours =
             IF r.clock_in # NullTs /\ r.clock_out # NullTs
             THEN MathMax(0, EpochMin(r.clock_out) - EpochMin(r.clock_in)) * MsPerMinute
             ELSE 0

\* 09:00-17:00 with only a break start at 12:00: the full 8 hours.
C4_Witness ==
    /\ attMutation.status = "success"
    /\ SubmittedData.clock_in = <<9, 0>> /\ SubmittedData.clock_out = <<17, 0>>
    /\ SubmittedData.break_start = <<12, 0>> /\ SubmittedData.break_end = NoTime
    /\ totalHours = 8 * MsPerHour

-----------------------------------------------------------------------------
(* The allocator on a table of existing rows *)

ExistingLogins == { u.user_id_login : u \in users }

\* C5: the identifier generate_user_id returns is not the login identifier
\* of any existing row, also when the largest suffix for the prefix is 999
\* or more and when typed identifiers share the prefix.
C5_ResultNotInSnapshot ==
    rpc.status = "ok" => rpc.id \notin ExistingLogins

\* Letters of a word, each in lower and upper case
AdminLetters == << {"a", "A"}, {"d", "D"}, {"m", "M"}, {"i", "I"}, {"n", "N"} >>
HrLetters == << {"h", "H"}, {"r", "R"} >>
ManagerLetters ==
    << {"m", "M"}, {"a", "A"}, {"n", "N"}, {"a", "A"}, {"g", "G"}, {"e", "E"},
       {"r", "R"} >>
EmployeeLetters ==
    << {"e", "E"}, {"m", "M"}, {"p", "P"}, {"l", "L"}, {"o", "O"}, {"y", "Y"},
       {"e", "E"}, {"e", "E"} >>

Spells(s, letters) ==
    /\ Len(s) = Len(letters)
    /\ \A i \in 1..Len(s) : s[i] \in letters[i]

\* The integers that follow the prefix in the existing logins that begin
\* with it
SuffixesOf(prefix) ==
    { CastInteger(SubSeq(l, Len(prefix) + 1, Len(l))).val :
        l \in { x \in ExistingLogins :
                  /\ x # NULL
                  /\ Len(x) >= Len(prefix)
                  /\ \A i \in 1..Len(prefix) : x[i] = prefix[i] } }

LargestSuffix(prefix) ==
    IF SuffixesOf(prefix) = {} THEN 0
    ELSE CHOOSE m \in SuffixesOf(prefix) : \A n \in SuffixesOf(prefix) : n <= m

\* C6: the result is the prefix followed by max + 1 left-padded with zeros
\* to 3 digits, max being the largest integer suffix among the existing ids
\* with the prefix (0 if there is none); Employee with EMP001, EMP002 and
\* ADM001 gives EMP003, an unrecognised role with no ids gives USR001.
C6_PrefixThenMaxPlusOne ==
    /\ rpc.status = "ok" =>
          rpc.id = rpc.prefix
                     \o LPadNoCut(IntToText(LargestSuffix(rpc.prefix) + 1), 3, "0")
    /\ rpc.status # "none" /\ rpc.role_name = Employee
         /\ ExistingLogins = { EMP \o <<"0", "0", "1">>, EMP \o <<"0", "0", "2">>,
                               ADM \o <<"0", "0", "1">> }
         => rpc.id = EMP \o <<"0", "0", "3">>
    /\ rpc.status # "none" /\ Len(rpc.role_name) > 8 /\ ExistingLogins = {}
         => rpc.id = USR \o <<"0", "0", "1">>

\* C7: admin, hr, manager and employee in any letter case map to ADM, HR,
\* MGR and EMP; every other role name maps to USR.
C7_RolePrefixClosed ==
    rpc.status # "none" =>
       rpc.prefix =
          IF Spells(rpc.role_name, AdminLetters) THEN ADM
          ELSE IF Spells(rpc.role_name, HrLetters) THEN HR
          ELSE IF Spells(rpc.role_name, ManagerLetters) THEN MGR
          ELSE IF Spells(rpc.role_name, EmployeeLetters) THEN EMP
          ELSE USR

\* The allocator has been called for "ADMIN" and has used the prefix ADM.
C7_Witness ==
    /\ rpc.status = "ok"
    /\ rpc.role_name = <<"A", "D", "M", "I", "N">>
    /\ rpc.prefix = ADM
    /\ rpc.id = ADM \o <<"0", "0", "2">>

-----------------------------------------------------------------------------
(* Concurrent user administration *)

RoleNameOf(roleId) == (CHOOSE r \in Roles : r.id = roleId).role_name

\* Flow f left the User ID field empty, has its identifier from the
\* allocator and has not yet sent its insert
Generated(f) ==
    /\ flow[f].pc = "insert"
    /\ flow[f].typed = << >>
    /\ FindRole(flow[f].role_id) # {}

\* C8 as stated: two create flows that both left the User ID field empty and
\* both called the allocator before either inserted hold the same identifier.
C8_SameIdentifier ==
    \A f \in Flows, g \in Flows :
       f # g /\ Generated(f) /\ Generated(g) =>
          flow[f].userIdLogin = flow[g].userIdLogin

\* C8 amended: two such flows hold the same identifier when their roles map
\* to the same prefix and both allocator calls read the same existing
\* identifiers with that prefix.
C8_SameIdentifierSamePrefix ==
    \A f \in Flows, g \in Flows :
       /\ f # g /\ Generated(f) /\ Generated(g)
       /\ RolePrefix(RoleNameOf(flow[f].role_id)) = RolePrefix(RoleNameOf(flow[g].role_id))
       /\ flow[f].seen = flow[g].seen
       => flow[f].userIdLogin = flow[g].userIdLogin

\* Both sessions create an Employee with an empty User ID field, both hold
\* EMP001 and neither has inserted.
C8_Witness ==
    /\ Generated("A") /\ Generated("B")
    /\ flow["A"].role_id = "r-employee" /\ flow["B"].role_id = "r-employee"
    /\ flow["A"].userIdLogin = EMP \o <<"0", "0", "1">>
    /\ flow["B"].userIdLogin = EMP \o <<"0", "0", "1">>
    /\ users = {}

DuplicateKey == "duplicate key value violates unique constraint"

\* C9: no two user rows ever have the same user_id_login, and an insert of
\* an identifier that a row already has is rejected: the users table stays
\* as it is and the flow ends with an error, without generating again.
C9_LoginsUnique ==
    /\ [](\A u \in users, v \in users : u.user_id_login = v.user_id_login => u = v)
    /\ [][\A f \in Flows :
            /\ flow[f].pc = "insert"
            /\ flow'[f] # flow[f]
            /\ \E u \in users : u.user_id_login = flow[f].userIdLogin
            => /\ users' = users
               /\ flow'[f].pc = "idle"
               /\ flow'[f].toast \in {DuplicateKey, "invalid role_id"}
               /\ flow'[f].open]_vars

\* One session's insert of EMP001 was rejected because the other session
\* had inserted EMP001 first.
C9_Witness ==
    /\ nextId = 1
    /\ \E u \in users : u.user_id_login = EMP \o <<"0", "0", "1">>
    /\ \E f \in Flows : flow[f].pc = "idle" /\ flow[f].toast = DuplicateKey

SuffixOf(a) == CastInteger(SubSeq(a.id, Len(a.prefix) + 1, Len(a.id))).val

\* C10: each identifier the allocator hands out has a numeric suffix
\* strictly greater than that of every identifier it handed out before for
\* the same prefix, also after users were deleted.
C10_AllocatedIncreasing ==
    [][\A f \in Flows :
          flow[f].pc = "rpc" /\ flow'[f].pc = "insert" /\ flow'[f].userIdLogin # << >>
          => LET new == [prefix |-> RolePrefix(RoleNameOf(flow[f].role_id)),
                         id |-> flow'[f].userIdLogin]
             IN  \A a \in allocated :
                    a.prefix = new.prefix => SuffixOf(a) < SuffixOf(new)]_vars

-----------------------------------------------------------------------------
(* The edit path and the allocator's outcomes *)

\* C11: once a user row has a login identifier no operation changes that
\* row's user_id_login; in particular the edit path of the user form leaves
\* it as it is.
C11_LoginImmutable ==
    [][\A u \in users, v \in users' :
          u.id = v.id => v.user_id_login = u.user_id_login]_vars

\* C12: the allocator never fails: for every role name and every set of
\* existing login identifiers, typed ones with a non-numeric remainder
\* after a role prefix included, it returns an identifier.
C12_AllocatorNeverFails == rpc.status # "error"

\* C13: a call of the allocator returns the identifier that an earlier call
\* for the same role returned, when the existing identifiers the earlier
\* call read are still the ones in the table.
C13_Deterministic ==
    [][\A f \in Flows, g \in Flows :
          /\ f # g
          /\ flow[f].pc = "rpc" /\ flow'[f].pc = "insert"
          /\ Generated(g)
          /\ flow[g].role_id = flow[f].role_id
          /\ flow[g].seen = MatchingLogins(RolePrefix(RoleNameOf(flow[f].role_id)), users)
          => flow'[f].userIdLogin = flow[g].userIdLogin]_vars

\* With ADM001 in the table both sessions asked for an Admin identifier and
\* both were given ADM002.
C13_Witness ==
    /\ Generated("A") /\ Generated("B")
    /\ flow["A"].role_id = "r-admin" /\ flow["B"].role_id = "r-admin"
    /\ ExistingLogins = { ADM \o <<"0", "0", "1">> }
    /\ flow["A"].seen = ExistingLogins /\ flow["B"].seen = ExistingLogins
    /\ flow["A"].userIdLogin = ADM \o <<"0", "0", "2">>
    /\ flow["B"].userIdLogin = ADM \o <<"0", "0", "2">>

-----------------------------------------------------------------------------
(* Attendance records *)

\* C14: there is at most one attendance record per user and date, and a
\* submission, also one for a user and date that already have a record,
\* succeeds and leaves that record holding the submitted clock_in,
\* clock_out, break_start, break_end, total_hours and status.
C14_UpsertReplaces ==
    /\ \A r \in attendance, s \in attendance :
          r.user_id = s.user_id /\ r.date = s.date => r = s
    /\ Submitted =>
          /\ attMutation.status = "success"
          /\ \E r \in attendance :
                /\ r.user_id = SubmittedData.user_id
                /\ r.date = SubmittedData.date
                /\ r.clock_in = Instant(tz, r.date, SubmittedData.clock_in)
                /\ r.clock_out = Instant(tz, r.date, SubmittedData.clock_out)
                /\ r.break_start = Instant(tz, r.date, SubmittedData.break_start)
                /\ r.break_end = Instant(tz, r.date, SubmittedData.break_end)
                /\ r.total_hours * 36000 = totalHours
                /\ r.status = SubmittedData.status

\* The worked-hours computation on the stored times of a record, in ms
HoursOfRecord(r) ==
    IF r.clock_in # NullTs /\ r.clock_out # NullTs
    THEN MathMax(0, (EpochMin(r.clock_out) - EpochMin(r.clock_in))
                    - (IF r.break_start # NullTs /\ r.break_end # NullTs
                       THEN EpochMin(r.break_end) - EpochMin(r.break_start)
                       ELSE 0)) * MsPerMinute
    ELSE 0

\* C15 as stated: the total_hours of every stored record equals the
\* worked-hours computation applied to the record's stored clock_in,
\* clock_out, break_start and break_end.
C15_TotalHoursDerived ==
    \A r \in attendance : r.total_hours * 36000 = HoursOfRecord(r)

\* C15 amended: the total_hours of every stored record is the worked-hours
\* computation applied to the record's stored times, rounded to the nearest
\* hundredth of an hour.
C15_TotalHoursDerivedRounded ==
    \A r \in attendance :
       LET diff == r.total_hours * 36000 - HoursOfRecord(r)
       IN  -18000 <= diff /\ diff <= 18000

\* 09:00 to 17:01 has been stored: 8 hours and 1 minute, kept as 8.02.
C15_Witness ==
    \E r \in attendance :
       /\ attMutation.status = "success"
       /\ SubmittedData.clock_in = <<9, 0>> /\ SubmittedData.clock_out = <<17, 1>>
       /\ SubmittedData.break_start = NoTime /\ SubmittedData.break_end = NoTime
       /\ HoursOfRecord(r) = 481 * MsPerMinute
       /\ r.total_hours = 802

-----------------------------------------------------------------------------
(* Leave requests *)

\* C16: once a leave request is approved, rejected or cancelled, no later
\* step changes its status, approved_by, approved_at or rejection_reason,
\* also when a second approver acts on a list fetched while the request
\* was pending.
C16_DecidedOnce ==
    [][\A r \in leaves, s \in leaves' :
          r.id = s.id /\ r.status # "pending"
          => /\ s.status = r.status
             /\ s.approved_by = r.approved_by
             /\ s.approved_at = r.approved_at
             /\ s.rejection_reason = r.rejection_reason]_vars

\* C17: the days_requested of a stored leave request is its end date minus
\* its start date in days, plus 1: 1 when both are the same date, 3 for
\* 2024-01-10 to 2024-01-12.
C17_InclusiveDayCount ==
    \A r \in leaves :
       /\ r.days_requested = (r.end_date - r.start_date) + 1
       /\ r.start_date = r.end_date => r.days_requested = 1
       /\ r.start_date = FirstDay /\ r.end_date = FirstDay + 2
            => r.days_requested = 3

\* A request from 2024-01-10 to 2024-01-12 has been created with 3 days.
C17_Witness ==
    /\ leaveSubmit.status = "success"
    /\ \E r \in leaves :
          /\ r.start_date = 19732 /\ r.end_date = 19734
          /\ r.days_requested = 3

\* C18: a submit of the leave request form with an end date before the
\* start date is rejected by the form and the table stays as it is; every
\* stored leave request has end_date >= start_date and days_requested >= 1.
C18_EndBeforeStartRejected ==
    /\ [](\A r \in leaves : r.end_date >= r.start_date /\ r.days_requested >= 1)
    /\ [][LET data == leaveSubmit'.variables
          IN  /\ leaveSubmit' # leaveSubmit
              /\ data.start_date # NoDate /\ data.end_date # NoDate
              /\ data.end_date.day < data.start_date.day
              => leaveSubmit'.status = "invalid" /\ leaves' = leaves]_vars

\* An otherwise complete form from 2024-01-12 back to 2024-01-10 has been
\* submitted and turned down, and nothing was stored.
C18_Witness ==
    /\ leaveSubmit.status = "invalid"
    /\ leaveSubmit.variables.user_id = "u1"
    /\ leaveSubmit.variables.reason # << >>
    /\ leaveSubmit.variables.start_date = PickedDate(19734)
    /\ leaveSubmit.variables.end_date = PickedDate(19732)
    /\ leaves = {}

-----------------------------------------------------------------------------
(* Generated identifiers of created users *)

\* A role prefix followed by a number
PrefixAndNumber(login) ==
    \E prefix \in {ADM, HR, MGR, EMP, USR} :
       /\ Like(login, prefix)
       /\ CastInteger(Substring(login, Len(prefix) + 1)).ok

\* C20: a user row inserted by a create flow whose User ID field was empty
\* has a non-empty user_id_login made of a role prefix and a number, also
\* when the role is not found or generate_user_id fails.
C20_GeneratedLoginPresent ==
    [][\A f \in Flows :
          flow[f].pc = "insert" /\ flow[f].typed = << >> /\ flow'[f].pc = "email"
          => \A u \in users' \ users :
                /\ u.user_id_login # << >>
                /\ PrefixAndNumber(u.user_id_login)]_vars

-----------------------------------------------------------------------------
(* Worked hours and the work span *)

\* C21: with clock-in and clock-out present, the worked hours computed and
\* the total_hours stored never exceed max(0, clock_out - clock_in), also
\* when the break ends before it starts.
C21_AtMostWorkSpan ==
    \A r \in SavedRows :
       r.clock_in # NullTs /\ r.clock_out # NullTs =>
          LET span == MathMax(0, EpochMin(r.clock_out) - EpochMin(r.clock_in))
                        * MsPerMinute
          IN  /\ totalHours <= span
              /\ r.total_hours * 36000 <= span

-----------------------------------------------------------------------------
(* Authentication *)

\* C22: a protected route shows its page only when loading is over and a
\* user is present; while loading it shows the placeholder, and with loading
\* over and no user it redirects to /login.
C22_ProtectedNeedsUser ==
    /\ rendered = "children" => ~authLoading /\ authUser # NoUser
    /\ authLoading => rendered = "Loading..."
    /\ ~authLoading /\ authUser = NoUser => rendered = "Navigate /login"

\* A sign-in has succeeded and the protected page is shown to its user.
C22_Witness ==
    /\ rendered = "children"
    /\ signInCall.result = "ok"
    /\ authUser # NoUser /\ authUser[1].id = signInCall.userData[1].id

\* C23: a signIn call ends with a session exactly when an active row with
\* the given user_id_login exists, has a password_hash, and the password
\* matches it; every other call ends with an error and leaves the user in
\* memory and the authUser entry of localStorage as they were.
C23_SignInOnlyValid ==
    [][signInCall.pc # "idle" /\ signInCall'.pc = "idle"
       => LET valid == { r \in AuthTable :
                           /\ r.user_id_login = signInCall.userIdLogin
                           /\ r.is_active
                           /\ r.password_hash # NULL
                           /\ r.password_hash = <<"$2a$10$">> \o signInCall.password }
          IN  IF valid # {}
              THEN /\ signInCall'.result = "ok"
                   /\ authUser' # NoUser /\ authUser'[1] \in valid
                   /\ localStorage' # NoEntry
              ELSE /\ signInCall'.result # "ok"
                   /\ authUser' = authUser
                   /\ localStorage' = localStorage]_vars

\* EMP001 is signed in, and a later signIn with a wrong password has failed
\* and left the session of EMP001 in place.
C23_Witness ==
    /\ signInCall.pc = "idle" /\ signInCall.result = "Invalid password"
    /\ authUser # NoUser /\ authUser[1].id = 1
    /\ localStorage # NoEntry /\ localStorage[1][1] = 1

\* C24: once the initial load is over, a user is in memory exactly when
\* localStorage holds an authUser entry, and the entry is that user; a step
\* that clears the user clears the entry too.
C24_UserMatchesStorage ==
    /\ [](~authLoading =>
            /\ authUser # NoUser <=> localStorage # NoEntry
            /\ authUser # NoUser =>
                  /\ localStorage[1][1] = authUser[1].id
                  /\ localStorage[1][2] = authUser[1].user_id_login
                  /\ localStorage[1][5] = authUser[1].role)
    /\ [][authUser # NoUser /\ authUser' = NoUser
            => localStorage' = NoEntry]_vars

\* A user has signed in and signed out again: no user, no entry.
C24_Witness ==
    /\ ~authLoading
    /\ signInCall.result = "ok" /\ signInCall.pc = "idle"
    /\ authUser = NoUser /\ localStorage = NoEntry

-----------------------------------------------------------------------------
(* Creating users: the duplicate check and the credentials email *)

\* C25: when the duplicate check of a create flow finds a user with the
\* typed User ID, the flow ends with the error "User ID already exists": no
\* row is inserted, the email step is not reached, the dialog stays open,
\* onSuccess is not called and loading is false again.
C25_DuplicateStopsCreate ==
    [][\A f \in Flows :
          /\ flow[f].pc = "dupcheck" /\ flow'[f] # flow[f]
          /\ \E u \in users : u.user_id_login = flow[f].typed
          => /\ users' = users
             /\ flow'[f].pc = "idle"
             /\ flow'[f].toast = "User ID already exists"
             /\ flow'[f].open
             /\ ~flow'[f].onSuccess
             /\ ~flow'[f].loading]_vars

\* A create with the typed EMP001 was turned down because a user EMP001
\* exists; that user is still the only one.
C25_Witness ==
    /\ \E f \in Flows :
          /\ flow[f].pc = "idle" /\ flow[f].toast = "User ID already exists"
          /\ flow[f].open /\ ~flow[f].onSuccess
    /\ ExistingLogins = { EMP \o <<"0", "0", "1">> }
    /\ Cardinality(users) = 1

\* C26: a create flow asks for the credentials email only in the step after
\* its row was inserted, and when the email step ends, sent or not, the
\* users table is as it was, the dialog is closed, onSuccess has been called
\* and loading is false.
C26_EmailAfterInsert ==
    [][\A f \in Flows :
          /\ flow[f].pc # "email" /\ flow'[f].pc = "email"
               => /\ flow[f].pc = "insert"
                  /\ \E u \in users' \ users :
                        u.user_id_login = flow[f].userIdLogin
          /\ flow[f].pc = "email" /\ flow'[f].pc # "email"
               => /\ users' = users
                  /\ flow'[f].pc = "idle"
                  /\ ~flow'[f].open
                  /\ flow'[f].onSuccess
                  /\ ~flow'[f].loading
                  /\ flow'[f].toast \in {"created, credentials sent",
                                         "created, email failed"}]_vars

\* The email of a created user failed: the row is there, the dialog is
\* closed and onSuccess was called.
C26_Witness ==
    /\ flow["A"].pc = "idle" /\ flow["A"].toast = "created, email failed"
    /\ ~flow["A"].open /\ flow["A"].onSuccess
    /\ users # {}

-----------------------------------------------------------------------------
(* Rejecting a leave request *)

\* C27: a request that is rejected holds a non-empty rejection_reason, and
\* rejection_reason is written only by a step that rejects the request with
\* a non-empty reason: neither an approval nor a prompt that was dismissed
\* or left empty changes it.
C27_RejectedHasReason ==
    /\ [](\A r \in leaves :
            r.status = "rejected"
              => r.rejection_reason # NULL /\ r.rejection_reason # << >>)
    /\ [][\A r \in leaves : \A q \in leaves' :
            q.id = r.id /\ q # r
              => \/ /\ q.status = "rejected"
                    /\ q.rejection_reason \in PromptAnswers \ {NULL, << >>}
                 \/ /\ q.status = "approved"
                    /\ q.rejection_reason = r.rejection_reason]_vars

\* A request was rejected with the reason typed into the prompt.
C27_Witness ==
    \E r \in leaves :
        r.status = "rejected" /\ r.rejection_reason = <<"n", "o">>

-----------------------------------------------------------------------------
(* Meetings *)

\* C28: when an edit of a meeting ends with success, the participants of
\* the meeting are exactly the selected users, each with status invited;
\* when it ends with an error, the stored meeting and its participants are
\* what they were when the edit was submitted (but for the rows of users
\* deleted since).
C28_EditReplacesOrKeeps ==
    [][/\ meetingEdit.pc # "idle" /\ meetingEdit'.pc = "idle"
          => { p \in meetingParticipants' : p.meeting_id = meetingEdit.id }
               = { ParticipantRow(meetingEdit.id, userId) :
                      userId \in meetingEdit.selectedParticipants }
       /\ meetingEdit.pc \in {"update", "insert"} /\ meetingEdit'.result = "error"
          => << { m \in meetings' : m.id = meetingEdit.id },
                { p \in meetingParticipants' : p.meeting_id = meetingEdit.id } >>
               = << meetingEdit.before[1],
                     { p \in meetingEdit.before[2] : p.user_id \in people' } >>]_vars

\* C29: a status button moves a meeting only along scheduled -> in-progress,
\* in-progress -> completed, in-progress -> scheduled and, from any status
\* but completed, to cancelled; so no button changes a completed meeting,
\* whatever the list the button was pressed on shows.
C29_StatusGraph ==
    [][\A s \in MeetSessions, newStatus \in ButtonStatuses :
         \A m \in meetings :
            HandleStatusChange(s, m.id, newStatus)
              => \A q \in meetings' :
                    q.id = m.id /\ q.status # m.status
                      => \/ m.status = "scheduled" /\ q.status = "in-progress"
                         \/ m.status = "in-progress" /\ q.status = "completed"
                         \/ m.status = "in-progress" /\ q.status = "scheduled"
                         \/ m.status # "completed" /\ q.status = "cancelled"]_vars

====
